---- MODULE Spec2Model ----
(***************************************************************************)
(* Model Optimizer entry point, model-optimizer/mo/main.py: main(),        *)
(* driver(), prepare_ir(), emit_ir() and replace_ext().                    *)
(*                                                                         *)
(* Strings are sequences of tokens: "/" and "." and "," and " " are the    *)
(* separators the code looks for, every other token is a run of ordinary   *)
(* characters.  An optional value is the empty set (Python None) or a      *)
(* singleton.  A float is an integer number of tenths.                     *)
(***************************************************************************)
EXTENDS Integers, Sequences, FiniteSets, TLC

VARIABLES
    pc,         \* position of the run in main/driver/prepare_ir/emit_ir
    framework,  \* main()'s framework parameter
    parsed,     \* the namespace as cli_parser.parse_args() returned it
    argv,       \* the namespace, mutated in place
    is,         \* prepare_ir's locals is_tf, is_caffe, is_mxnet, is_kaldi, is_onnx
    exc,        \* the exception main()'s try block raised, if any
    ret,        \* what main() returned, or how it ended
    logs,       \* records handed to the logger, in order
    stdout,     \* what was printed, in order
    calls,      \* calls made to the collaborators, in order
    analysis,   \* AnalysisResults: the messages collected during the run
    fs          \* the output directory on disk

vars ==
    <<pc, framework, parsed, argv, is, exc, ret, logs, stdout, calls, analysis, fs>>

(***************************************************************************)
(* Bounds of the model.                                                    *)
(***************************************************************************)
\* A run's options differ from the minimal valid configuration (only
\* --input_model given) in at most this many options.
MaxEdits ==
    2

(***************************************************************************)
(* String helpers.                                                         *)
(***************************************************************************)
None ==
    {}

Some(v) ==
    {v}

Val(x) ==
    CHOOSE v \in x : TRUE

\* Python truthiness of an optional string / list: None and '' are false.
Truthy(x) ==
    x # {} /\ Val(x) # <<>>

\* Python truthiness of an optional float: None and 0.0 are false.
TruthyNum(x) ==
    x # {} /\ Val(x) # 0

LastIndexOf(s, t) ==
    LET hits == {i \in 1..Len(s) : s[i] = t}
    IN  IF hits = {} THEN 0 ELSE CHOOSE i \in hits : \A j \in hits : j <= i

\* str.split(sep): the pieces between the occurrences of sep.
RECURSIVE Split(_, _)
Split(s, sep) ==
    LET hits == {i \in 1..Len(s) : s[i] = sep}
    IN  IF hits = {}
        THEN <<s>>
        ELSE LET k == CHOOSE i \in hits : \A j \in hits : i <= j
             IN  <<SubSeq(s, 1, k - 1)>> \o Split(SubSeq(s, k + 1, Len(s)), sep)

\* os.path.splitext: the extension starts at the last dot of the last path
\* component, unless only dots precede it in that component.
SplitExt(p) ==
    LET sepIndex == LastIndexOf(p, "/")
        dotIndex == LastIndexOf(p, ".")
        named    == \E i \in (sepIndex + 1)..(dotIndex - 1) : p[i] # "."
    IN  IF dotIndex > sepIndex /\ named
        THEN [base |-> SubSeq(p, 1, dotIndex - 1), ext |-> SubSeq(p, dotIndex, Len(p))]
        ELSE [base |-> p, ext |-> <<>>]

\* os.path.basename
Basename(p) ==
    SubSeq(p, LastIndexOf(p, "/") + 1, Len(p))

Digit(t) ==
    CASE t = "0" -> 0 [] t = "1" -> 1 [] t = "2" -> 2 [] t = "3" -> 3
      [] t = "4" -> 4 [] t = "5" -> 5 [] t = "6" -> 6 [] t = "7" -> 7
      [] t = "8" -> 8 [] t = "9" -> 9

RECURSIVE Digits(_)
Digits(s) ==
    IF s = <<>> THEN 0 ELSE 10 * Digits(SubSeq(s, 1, Len(s) - 1)) + Digit(s[Len(s)])

\* int(x) of a decimal numeral with an optional sign
ParseInt(s) ==
    IF s # <<>> /\ s[1] = "-" THEN 0 - Digits(Tail(s)) ELSE Digits(s)

(***************************************************************************)
(* The options parse_args() delivers.                                      *)
(***************************************************************************)
Frameworks ==
    {<<"tf">>, <<"caffe">>, <<"mxnet">>, <<"kaldi">>, <<"onnx">>}

\* A raw string option, and the forms the code normalizes it to.
Raw(s) ==
    [str |-> s]

List(l) ==
    [list |-> l]

Array(a) ==
    [array |-> a]

IsRaw(x) ==
    x # {} /\ "str" \in DOMAIN Val(x)

\* Python truthiness of an optional raw string.
TruthyRaw(x) ==
    x # {} /\ (IsRaw(x) => Val(x).str # <<>>)

CaffeModel ==
    <<"model", ".", "caffemodel">>

\* The options the model varies.  The others keep one value: --input is
\* given, --extensions is given, --silent is not; --log_level changes no
\* step of the run, only which records the logger shows (see Shown).
OptNames ==
    {"input_model", "saved_model_dir", "input_meta_graph", "input_symbol",
     "pretrained_model_name", "input_proto", "model_name", "mean_file",
     "mean_values", "mean_file_offsets", "scale", "scale_values",
     "saved_model_tags", "output",
     "tensorflow_use_custom_operations_config",
     "tensorflow_custom_operations_config_update",
     "generate_experimental_IR_V10", "output_dir"}

Fixed ==
    [input |-> Some(Raw(<<"data", "->", "1">>)),
     extensions |-> Some(Raw(<<"ext1", ",", "ext2">>)),
     silent |-> FALSE]

\* The minimal valid configuration: only --input_model is given.
Baseline ==
    [input_model |-> Some(CaffeModel),
     saved_model_dir |-> None,
     input_meta_graph |-> None,
     input_symbol |-> None,
     pretrained_model_name |-> None,
     input_proto |-> None,
     model_name |-> None,
     mean_file |-> None,
     mean_values |-> None,
     mean_file_offsets |-> None,
     scale |-> None,
     scale_values |-> None,
     saved_model_tags |-> None,
     output |-> None,
     tensorflow_use_custom_operations_config |-> None,
     tensorflow_custom_operations_config_update |-> None,
     generate_experimental_IR_V10 |-> FALSE,
     output_dir |-> Some(<<"out">>)]

\* The other values an option takes in the model.
Alt ==
    [input_model |-> <<None,
                       Some(<<"nets", ".", "v1", "/", "net", ".", "caffemodel">>),
                       Some(<<"model", ".", "pb">>),
                       Some(<<"w", ".", "caffemodel", "/", ".", "caffemodel">>)>>,
     saved_model_dir |-> <<Some(<<"export", "/", "sm", ".", "v2">>)>>,
     input_meta_graph |-> <<Some(<<"ckpt", "/", "graph", ".", "meta">>)>>,
     input_symbol |-> <<Some(<<"net", "-symbol", ".", "json">>)>>,
     pretrained_model_name |-> <<Some(<<"resnet">>)>>,
     input_proto |-> <<Some(<<"deploy", ".", "prototxt">>)>>,
     model_name |-> <<Some(<<"custom">>)>>,
     mean_file |-> <<Some(<<"mean", ".", "binaryproto">>)>>,
     mean_values |-> <<Some(<<"(", "1", ",", "2", ",", "3", ")">>)>>,
     mean_file_offsets |-> <<Some(Raw(<<"(", "0", ",", "1", "7", ")">>)),
                             Some(Raw(<<"(", "3", ",", "-", "4", ")">>))>>,
     scale |-> <<Some(0), Some(5), Some(10)>>,
     scale_values |-> <<Some(<<"(", "5", ",", "5", ",", "5", ")">>)>>,
     saved_model_tags |-> <<Some(Raw(<<"serve", ",", "gpu">>)),
                            Some(Raw(<<"serve", " ", "gpu">>))>>,
     output |-> <<Some(Raw(<<"prob", ",", "fc8">>))>>,
     tensorflow_use_custom_operations_config |-> <<Some(<<"ssd", ".", "json">>)>>,
     tensorflow_custom_operations_config_update |-> <<Some(<<"upd", ".", "json">>)>>,
     generate_experimental_IR_V10 |-> <<TRUE>>,
     output_dir |-> <<Some(<<".">>)>>]

RECURSIVE SubsetsUpTo(_, _)
SubsetsUpTo(S, k) ==
    IF k <= 0
    THEN {{}}
    ELSE LET prev == SubsetsUpTo(S, k - 1)
         IN  prev \cup {T \cup {x} : T \in prev, x \in S}

Choices(S) ==
    {c \in [S -> 1..4] : \A o \in S : c[o] <= Len(Alt[o])}

\* The option settings at most k edits away from Baseline.
ConfigsUpTo(k) ==
    UNION {{[o \in OptNames |-> IF o \in S THEN Alt[o][c[o]] ELSE Baseline[o]] :
                c \in Choices(S)} :
           S \in SubsetsUpTo(OptNames, k)}

\* How main() is told the framework: by --framework alone (mo.py), by its
\* framework parameter alone (mo_tf.py and the like: one edit), or by both
\* (two edits).
EntryEdits(f, cli) ==
    IF f = None THEN 0 ELSE IF cli = None THEN 1 ELSE 2

\* os.getcwd()
Cwd ==
    <<"/", "cwd">>

(***************************************************************************)
(* Exceptions and main()'s except clauses.                                 *)
(***************************************************************************)
NoExc ==
    [kind |-> "none", msg |-> <<>>, at |-> "none"]

Exc(kind, msg) ==
    [kind |-> kind, msg |-> msg, at |-> "none"]

NoSuchFile ==
    "No such file or directory:"

\* What the operating system and the collaborators say.
MsgENOENT ==
    <<"[Errno 2] ", NoSuchFile, " 'model.bin'">>

MsgENOTDIR ==
    <<"[Errno 20] Not a directory: 'out'">>

Running ==
    [status |-> "running", code |-> -1, error |-> "none"]

Returned(code) ==
    [status |-> "returned", code |-> code, error |-> "none"]

Escaped(kind) ==
    [status |-> "raised", code |-> -1, error |-> kind]

Log(level, cat, text) ==
    [level |-> level, cat |-> cat, text |-> text]

Traceback ==
    <<"traceback.format_exc()">>

\* except (FileNotFoundError, NotADirectoryError) as e, lines 316-318.  The
\* message is formatted before log.error is called; when the text does not
\* hold the marker, [1] raises IndexError inside the except clause.
FileNotFoundClause(e) ==
    LET parts == Split(e.msg, NoSuchFile)
    IN  IF Len(parts) < 2
        THEN [ret |-> Escaped("IndexError"), logs |-> <<>>]
        ELSE [ret |-> Returned(1),
              logs |-> <<Log("error", "file_not_found",
                             <<"File">> \o parts[2] \o <<"was not found">>),
                         Log("debug", "traceback", Traceback)>>]

\* except Error as err, lines 319-325
ErrorClause(e, messages) ==
    [ret |-> Returned(1),
     logs |-> (IF messages # None
               THEN [i \in 1..Len(Val(messages)) |->
                        Log("error", "analysis_info", <<Val(messages)[i]>>)]
               ELSE <<>>)
              \o <<Log("error", "error", e.msg),
                   Log("debug", "traceback", Traceback)>>]

\* Variant: line 328 logs the traceback with log.error.
FrameworkErrorClauseWithTrace(e) ==
    [ret |-> Returned(1),
     logs |-> <<Log("error", "framework_error", e.msg),
                Log("error", "traceback", Traceback)>>]

\* except FrameworkError as err, lines 326-328
FrameworkErrorClause(e) ==
    [ret |-> Returned(1),
     logs |-> <<Log("error", "framework_error", e.msg),
                Log("debug", "traceback", Traceback)>>]

\* except Exception as err, lines 329-337
ExceptionClause(e) ==
    [ret |-> Returned(1),
     logs |-> <<Log("error", "internal", <<"----------------- INTERNAL ERROR ----------------">>),
                Log("error", "internal", <<"Unexpected exception happened.">>),
                Log("error", "internal", e.msg),
                Log("error", "internal", Traceback),
                Log("error", "internal", <<"---------------- END OF BUG REPORT --------------">>)>>]

\* The except clauses in their order, and the return 1 of line 338.
MainExcept(e, messages) ==
    IF e.kind \in {"FileNotFoundError", "NotADirectoryError"}
    THEN FileNotFoundClause(e)
    ELSE IF e.kind = "Error"
    THEN ErrorClause(e, messages)
    ELSE IF e.kind = "FrameworkError"
    THEN FrameworkErrorClause(e)
    ELSE ExceptionClause(e)

\* driver line 269: init_logger(argv.log_level.upper(), argv.silent).  The
\* levels --log_level takes, and the records the logger shows at each: those
\* whose severity is not below the level's.
LogLevels ==
    {"CRITICAL", "ERROR", "WARN", "WARNING", "INFO", "DEBUG", "NOTSET"}

Severity(level) ==
    CASE level \in {"CRITICAL", "critical"} -> 5
      [] level \in {"ERROR", "error"} -> 4
      [] level \in {"WARN", "WARNING", "warning"} -> 3
      [] level \in {"INFO", "info"} -> 2
      [] level \in {"DEBUG", "debug"} -> 1
      [] level = "NOTSET" -> 0

Shown(records, log_level) ==
    SelectSeq(records, LAMBDA r : Severity(r.level) >= Severity(log_level))

(***************************************************************************)
(* prepare_ir: the pure parts.                                             *)
(***************************************************************************)
\* mo.utils.guess_framework.deduce_framework_by_namespace: one flag per
\* framework, true for the framework the namespace names.
deduce_framework_by_namespace(a) ==
    [tf    |-> a.framework = Some(<<"tf">>),
     caffe |-> a.framework = Some(<<"caffe">>),
     mxnet |-> a.framework = Some(<<"mxnet">>),
     kaldi |-> a.framework = Some(<<"kaldi">>),
     onnx  |-> a.framework = Some(<<"onnx">>)]

NoFlags ==
    [tf |-> FALSE, caffe |-> FALSE, mxnet |-> FALSE, kaldi |-> FALSE, onnx |-> FALSE]

\* Variant: not all(...) written for not any(...).
NotAllFrameworks(f) ==
    ~(f.tf /\ f.caffe /\ f.mxnet /\ f.kaldi /\ f.onnx)

\* line 101: not any([is_tf, is_caffe, is_mxnet, is_kaldi, is_onnx])
NotAnyFramework(f) ==
    ~(f.tf \/ f.caffe \/ f.mxnet \/ f.kaldi \/ f.onnx)

Str(x) ==
    IF x = None THEN <<"None">> ELSE Val(x)

\* lines 102-103
MsgFramework(fw) ==
    <<"Framework">> \o Str(fw)
        \o <<"is not a valid target. Please use --framework with one from the list:",
             "caffe", "tf", "mxnet", "kaldi", "onnx", "refer_to_faq_msg(15)">>

\* lines 106-107
MsgRequiredTf ==
    <<"Path to input model or saved model dir is required: use",
      "--input_model", "--saved_model_dir", "or", "--input_meta_graph">>

\* lines 109-110
MsgRequiredMxnet ==
    <<"Path to input model or input symbol or pretrained_model_name is required: use",
      "--input_model", "or", "--input_symbol", "or", "--pretrained_model_name">>

\* line 112
MsgRequiredCaffe ==
    <<"Path to input model or input proto is required: use",
      "--input_model", "or", "--input_proto">>

\* line 114
MsgRequiredModel ==
    <<"Path to input model is required: use", "--input_model">>

\* Variant: the Caffe branch of lines 111-112 is missing.
RequiredInputErrorNoCaffe(a, f) ==
    IF f.tf /\ ~Truthy(a.input_model) /\ ~Truthy(a.saved_model_dir)
            /\ ~Truthy(a.input_meta_graph)
    THEN MsgRequiredTf
    ELSE IF f.mxnet /\ ~Truthy(a.input_model) /\ ~Truthy(a.input_symbol)
            /\ ~Truthy(a.pretrained_model_name)
    THEN MsgRequiredMxnet
    ELSE IF (f.kaldi \/ f.onnx) /\ ~Truthy(a.input_model)
    THEN MsgRequiredModel
    ELSE <<>>

\* Variant: the MXNet branch forgets --pretrained_model_name.
RequiredInputErrorTwoOfThree(a, f) ==
    IF f.tf /\ ~Truthy(a.input_model) /\ ~Truthy(a.saved_model_dir)
            /\ ~Truthy(a.input_meta_graph)
    THEN MsgRequiredTf
    ELSE IF f.mxnet /\ ~Truthy(a.input_model) /\ ~Truthy(a.input_symbol)
    THEN MsgRequiredMxnet
    ELSE IF f.caffe /\ ~Truthy(a.input_model) /\ ~Truthy(a.input_proto)
    THEN MsgRequiredCaffe
    ELSE IF (f.kaldi \/ f.onnx) /\ ~Truthy(a.input_model)
    THEN MsgRequiredModel
    ELSE <<>>

\* lines 105-114: the message of the Error raised, <<>> when none is.
RequiredInputError(a, f) ==
    IF f.tf /\ ~Truthy(a.input_model) /\ ~Truthy(a.saved_model_dir)
            /\ ~Truthy(a.input_meta_graph)
    THEN MsgRequiredTf
    ELSE IF f.mxnet /\ ~Truthy(a.input_model) /\ ~Truthy(a.input_symbol)
                    /\ ~Truthy(a.pretrained_model_name)
    THEN MsgRequiredMxnet
    ELSE IF f.caffe /\ ~Truthy(a.input_model) /\ ~Truthy(a.input_proto)
    THEN MsgRequiredCaffe
    ELSE IF (f.kaldi \/ f.onnx) /\ ~Truthy(a.input_model)
    THEN MsgRequiredModel
    ELSE <<>>

\* mo.utils.cli_parser.get_model_name: the path's basename minus extension.
get_model_name(path) ==
    SplitExt(Basename(path)).base

UnknownName ==
    <<"<UNKNOWN_NAME>">>

\* Variant: --input_model is looked at before --model_name.
ResolveModelNameInputFirst(a, f) ==
    IF Truthy(a.input_model)
    THEN get_model_name(Val(a.input_model))
    ELSE IF Truthy(a.model_name)
    THEN Val(a.model_name)
    ELSE IF f.tf /\ Truthy(a.saved_model_dir)
    THEN <<"saved_model">>
    ELSE IF f.tf /\ Truthy(a.input_meta_graph)
    THEN get_model_name(Val(a.input_meta_graph))
    ELSE IF f.mxnet /\ Truthy(a.input_symbol)
    THEN get_model_name(Val(a.input_symbol))
    ELSE UnknownName

\* lines 122-132
ResolveModelName(a, f) ==
    IF Truthy(a.model_name)
    THEN Val(a.model_name)
    ELSE IF Truthy(a.input_model)
    THEN get_model_name(Val(a.input_model))
    ELSE IF f.tf /\ Truthy(a.saved_model_dir)
    THEN <<"saved_model">>
    ELSE IF f.tf /\ Truthy(a.input_meta_graph)
    THEN get_model_name(Val(a.input_meta_graph))
    ELSE IF f.mxnet /\ Truthy(a.input_symbol)
    THEN get_model_name(Val(a.input_symbol))
    ELSE UnknownName

\* Variant: the extension is replaced whatever it is.
replace_ext_unchecked(name, old, new) ==
    Some(SplitExt(name).base \o new)

\* lines 48-52: None when the extension is not the old one.
replace_ext(name, old, new) ==
    LET r == SplitExt(name)
    IN  IF r.ext = old THEN Some(r.base \o new) ELSE None

CaffeModelExt ==
    <<".", "caffemodel">>

PrototxtExt ==
    <<".", "prototxt">>

\* lines 143-146
MsgPrototxt ==
    <<"Cannot find prototxt file: for Caffe please specify", "--input_proto",
      "- a protobuf file that stores topology and", "--input_model",
      "that stores pretrained weights.", "refer_to_faq_msg(20)">>

\* line 139
NeedsProto(a, f) ==
    f.caffe /\ ~Truthy(a.input_proto)

\* line 154
MsgRequirements ==
    <<"check_requirements exit with return code", "1">>

\* lines 161-162
MsgBothMean ==
    <<"Both", "--mean_file", "and", "mean_values",
      "are specified. Specify either mean file or mean values.",
      "refer_to_faq_msg(17)">>

\* lines 168-170
MsgNegativeOffsets ==
    <<"Negative value specified for", "--mean_file_offsets",
      "option. Please specify positive integer values in format '(x,y)'.",
      "refer_to_faq_msg(18)">>

\* mo.utils.cli_parser.get_tuple_values
MsgCannotParse ==
    <<"Values cannot be parsed.", "refer_to_faq_msg(24)">>

\* lines 174-176
MsgBothScale ==
    <<"Both", "--scale", "and", "--scale_values",
      "are defined. Specify either scale factor or scale values per input channels.",
      "refer_to_faq_msg(19)">>

\* lines 179-180
MsgScaleWarning ==
    <<"The scale value is less than 1.0. This is most probably an issue because the scale value specifies floating point value which all input values will be *divided*.">>

\* lines 183-184
MsgModelAndDir ==
    <<"Both", "--input_model", "and", "--saved_model_dir",
      "are defined. Specify either input model or saved model directory.">>

\* line 188
MsgTags ==
    <<"Incorrect saved model tag was provided. Specify", "--saved_model_tags",
      "with no spaces in it">>

\* lines 205-207
MsgCannotCreate ==
    <<"Failed to create directory", "{}", ". Permission denied!", "refer_to_faq_msg(22)">>

\* lines 210-211
MsgNotWritable ==
    <<"Output directory", "{}", "is not writable for current user.",
      "refer_to_faq_msg(22)">>

\* line 156
UsesCustomConfig(a, f) ==
    f.tf /\ a.tensorflow_use_custom_operations_config # None

\* line 160
BothMean(a, f) ==
    f.caffe /\ Truthy(a.mean_file) /\ Truthy(a.mean_values)

\* Variant: line 163 without is_caffe.
ParsesOffsetsAnyFramework(a, f) ==
    Truthy(a.mean_file) /\ TruthyRaw(a.mean_file_offsets)

\* line 163
ParsesOffsets(a, f) ==
    f.caffe /\ Truthy(a.mean_file) /\ TruthyRaw(a.mean_file_offsets)

\* mo.utils.cli_parser.get_tuple_values(argv_values, t=int, num_exp_values):
\* the text between the brackets of a tuple of num_exp_values numbers.
get_tuple_values(s, num_exp_values) ==
    LET inner == SubSeq(s, 2, Len(s) - 1)
    IN  IF /\ Len(s) >= 2
           /\ s[1] = "(" /\ s[Len(s)] = ")"
           /\ Len(Split(inner, ",")) = num_exp_values
           /\ \A i \in 1..num_exp_values : Split(inner, ",")[i] # <<>>
        THEN [ok |-> TRUE, values |-> <<inner>>]
        ELSE [ok |-> FALSE, values |-> <<>>]

NumOffsets ==
    2

\* line 166: np.array([int(x) for x in values[0].split(',')])
OffsetsArray(values) ==
    LET pieces == Split(values[1], ",")
    IN  [i \in 1..Len(pieces) |-> ParseInt(pieces[i])]

\* Variant: offset > 0 written for offset >= 0.
AllPositive(arr) ==
    \A i \in 1..Len(arr) : arr[i] > 0

\* line 167: all([offset >= 0 for offset in mean_file_offsets])
AllNonNegative(arr) ==
    \A i \in 1..Len(arr) : arr[i] >= 0

\* line 173
BothScale(a) ==
    TruthyNum(a.scale) /\ Truthy(a.scale_values)

\* 1.0, in tenths
ScaleOne ==
    10

\* line 178
ScaleBelowOne(a) ==
    TruthyNum(a.scale) /\ Val(a.scale) < ScaleOne

\* line 182
ModelAndDir(a, f) ==
    Truthy(a.input_model) /\ (f.tf /\ Truthy(a.saved_model_dir))

\* line 187: ' ' in argv.saved_model_tags
HasSpace(s) ==
    \E i \in 1..Len(s) : s[i] = " "

\* Variant: line 191 keeps the string.
SplitOutputNot(a) ==
    IF TruthyRaw(a.output) THEN a.output ELSE None

\* line 191
SplitOutput(a) ==
    IF TruthyRaw(a.output) THEN Some(List(Split(Val(a.output).str, ","))) ELSE None

\* lines 216-219
ExtensionsList(a) ==
    IF TruthyRaw(a.extensions) THEN Some(Split(Val(a.extensions).str, ",")) ELSE None

\* mo.utils.cli_parser.get_freeze_placeholder_values: the input names without
\* their frozen values, and the frozen values.
get_freeze_placeholder_values(input) ==
    IF TruthyRaw(input)
    THEN LET parts == Split(Val(input).str, "->")
         IN  [input  |-> Some([names |-> parts[1]]),
              freeze |-> IF Len(parts) > 1 THEN Some(<<parts[1], parts[2]>>) ELSE None]
    ELSE [input |-> input, freeze |-> None]

\* Variant: every branch imports the TensorFlow lookup.
FrontClassesOfTf(f) ==
    IF f.tf \/ f.caffe \/ f.mxnet \/ f.kaldi \/ f.onnx THEN "mo.front.tf" ELSE "none"

\* lines 223-237: whose get_front_classes is imported.
FrontClasses(f) ==
    IF f.tf THEN "mo.front.tf"
    ELSE IF f.caffe THEN "mo.front.caffe"
    ELSE IF f.mxnet THEN "mo.front.mxnet"
    ELSE IF f.kaldi THEN "mo.front.kaldi"
    ELSE IF f.onnx THEN "mo.front.onnx"
    ELSE "none"

(***************************************************************************)
(* The run.                                                                *)
(***************************************************************************)
OptFramework ==
    {None} \cup {Some(x) : x \in Frameworks}

\* What parse_args() adds to the options the model varies.
Namespace(cfg, fw) ==
    cfg @@ Fixed @@
           [framework |-> fw,
            transformations_config |-> None,
            placeholder_shapes |-> None,
            placeholder_data_types |-> None,
            mean_scale_values |-> None,
            freeze_placeholder_with_value |-> None]

Init ==
    /\ pc = "idle"
    /\ framework = None
    /\ parsed = Namespace(Baseline, None)
    /\ argv = Namespace(Baseline, None)
    /\ is = NoFlags
    /\ exc = NoExc
    /\ ret = Running
    /\ logs = <<>>
    /\ stdout = <<>>
    /\ calls = <<>>
    /\ analysis = None
    /\ fs \in {[exists |-> FALSE, writable |-> FALSE, errno |-> "none"],
               [exists |-> TRUE, writable |-> FALSE, errno |-> "none"],
               [exists |-> TRUE, writable |-> TRUE, errno |-> "none"]}

\* An exception leaves the try block of main(): the matching except clause
\* runs and main() returns 1, or the clause itself raises.  exc.at is the
\* step that raised (the innermost frame of the traceback).
RaiseWith(e, messages) ==
    LET h == MainExcept(e, messages)
    IN  /\ pc' = "done"
        /\ exc' = [kind |-> e.kind, msg |-> e.msg, at |-> pc]
        /\ ret' = h.ret
        /\ logs' = logs \o h.logs

Raise(e) ==
    RaiseWith(e, analysis)

Continue(next) ==
    /\ pc' = next
    /\ UNCHANGED <<exc, ret, logs>>

\* main() lines 293-312 and driver() lines 269-271: a run of the tool starts.
\* The working directory, which --output_dir . names, exists.
Main ==
    /\ pc = "idle"
    /\ \E f \in OptFramework, cli \in OptFramework :
         \E cfg \in ConfigsUpTo(MaxEdits - EntryEdits(f, cli)) :
            /\ cfg.output_dir = Some(<<".">>) => fs.exists
            /\ framework' = f
            /\ parsed' = Namespace(cfg, cli)
            /\ argv' = Namespace(cfg, IF Truthy(f) THEN f ELSE cli)
    /\ pc' = "prepare_ir"
    /\ is' = NoFlags
    /\ exc' = NoExc
    /\ ret' = Running
    /\ logs' = <<>>
    /\ stdout' = <<>>
    /\ calls' = <<>>
    /\ analysis' = None
    /\ UNCHANGED fs

\* prepare_ir lines 99-103
Detect ==
    /\ pc = "prepare_ir"
    /\ is' = deduce_framework_by_namespace(argv)
    /\ IF NotAnyFramework(is')
       THEN Raise(Exc("Error", MsgFramework(argv.framework)))
       ELSE Continue("required")
    /\ UNCHANGED <<framework, parsed, argv, stdout, calls, analysis, fs>>

\* prepare_ir lines 105-114
RequiredInput ==
    /\ pc = "required"
    /\ IF RequiredInputError(argv, is) # <<>>
       THEN Raise(Exc("Error", RequiredInputError(argv, is)))
       ELSE Continue("naming")
    /\ UNCHANGED <<framework, parsed, argv, is, stdout, calls, analysis, fs>>

\* prepare_ir lines 116-135
Naming ==
    /\ pc = "naming"
    /\ argv' = [argv EXCEPT
                  !.generate_experimental_IR_V10 = IF is.kaldi THEN FALSE ELSE @,
                  !.model_name = Some(ResolveModelName(argv, is))]
    /\ Continue("companion")
    /\ UNCHANGED <<framework, parsed, is, stdout, calls, analysis, fs>>

\* prepare_ir lines 139-147
Companion ==
    /\ pc = "companion"
    /\ IF NeedsProto(argv, is)
       THEN IF argv.input_model = None
            THEN /\ Raise(Exc("Exception", <<"TypeError: expected str, bytes or os.PathLike object, not NoneType">>))
                 /\ UNCHANGED argv
            ELSE LET proto == replace_ext(Val(argv.input_model), CaffeModelExt, PrototxtExt)
                 IN  /\ argv' = [argv EXCEPT !.input_proto = proto]
                     /\ IF ~Truthy(proto)
                        THEN Raise(Exc("Error", MsgPrototxt))
                        ELSE Continue("print_argv")
       ELSE /\ Continue("print_argv")
            /\ UNCHANGED argv
    /\ UNCHANGED <<framework, parsed, is, stdout, calls, analysis, fs>>

Call(fn, arg) ==
    [fn |-> fn, arg |-> arg]

\* prepare_ir lines 149-157
Requirements ==
    /\ pc = "print_argv"
    /\ stdout' = IF ~argv.silent
                 THEN Append(stdout, <<"Model Optimizer arguments:">>)
                 ELSE stdout
    /\ calls' = Append(calls, Call("check_requirements", Str(argv.framework)))
    /\ \E ret_code \in {0, 1} :
         IF ret_code # 0
         THEN /\ Raise(Exc("Error", MsgRequirements))
              /\ UNCHANGED argv
         ELSE /\ argv' = IF UsesCustomConfig(argv, is)
                         THEN [argv EXCEPT !.transformations_config =
                                   argv.tensorflow_use_custom_operations_config]
                         ELSE argv
              /\ Continue("mean")
    /\ UNCHANGED <<framework, parsed, is, analysis, fs>>

\* prepare_ir lines 159-171
Mean ==
    /\ pc = "mean"
    /\ IF BothMean(argv, is)
       THEN /\ Raise(Exc("Error", MsgBothMean))
            /\ UNCHANGED argv
       ELSE IF ParsesOffsets(argv, is)
       THEN LET got == get_tuple_values(Val(argv.mean_file_offsets).str, NumOffsets)
            IN  IF ~got.ok
                THEN /\ Raise(Exc("Error", MsgCannotParse))
                     /\ UNCHANGED argv
                ELSE IF ~AllNonNegative(OffsetsArray(got.values))
                THEN /\ Raise(Exc("Error", MsgNegativeOffsets))
                     /\ UNCHANGED argv
                ELSE /\ argv' = [argv EXCEPT !.mean_file_offsets =
                                    Some(Array(OffsetsArray(got.values)))]
                     /\ Continue("scale")
       ELSE /\ Continue("scale")
            /\ UNCHANGED argv
    /\ UNCHANGED <<framework, parsed, is, stdout, calls, analysis, fs>>

\* prepare_ir lines 173-176
ScaleExclusive ==
    /\ pc = "scale"
    /\ IF BothScale(argv)
       THEN Raise(Exc("Error", MsgBothScale))
       ELSE Continue("scale_warning")
    /\ UNCHANGED <<framework, parsed, argv, is, stdout, calls, analysis, fs>>

\* prepare_ir lines 178-180: log.error(..., extra={'is_warning': True})
ScaleWarning ==
    /\ pc = "scale_warning"
    /\ pc' = "saved_model"
    /\ logs' = IF ScaleBelowOne(argv)
               THEN Append(logs, Log("error", "warning", MsgScaleWarning))
               ELSE logs
    /\ UNCHANGED <<framework, parsed, argv, is, exc, ret, stdout, calls, analysis, fs>>

\* prepare_ir lines 182-184
SavedModel ==
    /\ pc = "saved_model"
    /\ IF ModelAndDir(argv, is)
       THEN Raise(Exc("Error", MsgModelAndDir))
       ELSE Continue("tags")
    /\ UNCHANGED <<framework, parsed, argv, is, stdout, calls, analysis, fs>>

\* prepare_ir lines 185-189
Tags ==
    /\ pc = "tags"
    /\ IF is.tf /\ argv.saved_model_tags # None
       THEN IF HasSpace(Val(argv.saved_model_tags).str)
            THEN /\ Raise(Exc("Error", MsgTags))
                 /\ UNCHANGED argv
            ELSE /\ argv' = [argv EXCEPT !.saved_model_tags =
                                Some(List(Split(Val(argv.saved_model_tags).str, ",")))]
                 /\ Continue("output")
       ELSE /\ Continue("output")
            /\ UNCHANGED argv
    /\ UNCHANGED <<framework, parsed, is, stdout, calls, analysis, fs>>

\* prepare_ir line 191
Output ==
    /\ pc = "output"
    /\ argv' = [argv EXCEPT !.output = SplitOutput(argv)]
    /\ Continue("shapes")
    /\ UNCHANGED <<framework, parsed, is, stdout, calls, analysis, fs>>

\* prepare_ir lines 193-194: get_placeholder_shapes may reject the shapes.
Shapes ==
    /\ pc = "shapes"
    /\ calls' = Append(calls, Call("get_placeholder_shapes", argv.input))
    /\ \/ /\ argv' = [argv EXCEPT !.placeholder_shapes = Some(<<"shapes">>),
                                  !.placeholder_data_types = Some(<<"types">>)]
          /\ Continue("mean_scale")
       \/ /\ Raise(Exc("Error", <<"get_placeholder_shapes">>))
          /\ UNCHANGED argv
    /\ UNCHANGED <<framework, parsed, is, stdout, analysis, fs>>

\* prepare_ir lines 196-199: parse_tuple_pairs and get_mean_scale_dictionary
\* may reject the values.
MeanScale ==
    /\ pc = "mean_scale"
    /\ calls' = Append(calls, Call("get_mean_scale_dictionary", argv.input))
    /\ \/ /\ argv' = [argv EXCEPT !.mean_scale_values = Some(<<"mean_scale">>)]
          /\ Continue("output_dir")
       \/ /\ Raise(Exc("Error", <<"get_mean_scale_dictionary">>))
          /\ UNCHANGED argv
    /\ UNCHANGED <<framework, parsed, is, stdout, analysis, fs>>

\* Variant: the "not" of line 201 is lost.
OutputDirPresent(d) ==
    d.exists

\* line 201: not os.path.exists(argv.output_dir)
OutputDirMissing(d) ==
    ~d.exists

\* line 209: not os.access(argv.output_dir, os.W_OK)
OutputDirNotWritable(d) ==
    ~d.writable

\* What os.makedirs can meet on a directory that does not exist: it creates
\* it ("none"), or fails with PermissionError or NotADirectoryError.
MakedirsErrno ==
    {"none", "EACCES", "ENOTDIR"}

\* lines 202-207: the directory after os.makedirs met errno.
Makedirs(d, errno) ==
    IF errno = "none"
    THEN [exists |-> TRUE, writable |-> TRUE, errno |-> errno]
    ELSE [d EXCEPT !.errno = errno]

\* lines 204-207: PermissionError is raised again as Error; anything else
\* leaves prepare_ir as it is.
MakedirsRaises(errno) ==
    IF errno = "EACCES"
    THEN Exc("Error", MsgCannotCreate)
    ELSE Exc("NotADirectoryError", MsgENOTDIR)

\* prepare_ir lines 201-211
ResolveOutputDir ==
    /\ pc = "output_dir"
    /\ IF OutputDirMissing(fs)
       THEN /\ calls' = Append(calls, Call("os.makedirs", argv.output_dir))
            /\ \E errno \in MakedirsErrno :
                  /\ fs' = Makedirs(fs, errno)
                  /\ IF errno = "none"
                     THEN Continue("freeze")
                     ELSE Raise(MakedirsRaises(errno))
       ELSE /\ IF OutputDirNotWritable(fs)
               THEN Raise(Exc("Error", MsgNotWritable))
               ELSE Continue("freeze")
            /\ UNCHANGED <<calls, fs>>
    /\ UNCHANGED <<framework, parsed, argv, is, stdout, analysis>>

\* prepare_ir lines 215-222
Freeze ==
    /\ pc = "freeze"
    /\ LET got == get_freeze_placeholder_values(argv.input)
       IN  argv' = [argv EXCEPT !.freeze_placeholder_with_value = got.freeze,
                                !.input = got.input]
    /\ calls' = Append(calls, Call("get_freeze_placeholder_values", argv.input))
    /\ Continue("load")
    /\ UNCHANGED <<framework, parsed, is, stdout, analysis, fs>>

\* prepare_ir lines 223-237: import_extensions.load_dirs may fail to import.
LoadExtensions ==
    /\ pc = "load"
    /\ calls' = IF FrontClasses(is) # "none"
                THEN Append(calls, [fn |-> "load_dirs",
                                    arg |-> Str(argv.framework),
                                    extensions |-> ExtensionsList(argv),
                                    lookup |-> FrontClasses(is)])
                ELSE calls
    /\ \/ Continue("pipeline")
       \/ /\ FrontClasses(is) # "none"
          /\ Raise(Exc("Exception", <<"ImportError">>))
    /\ UNCHANGED <<framework, parsed, argv, is, stdout, analysis, fs>>

\* What unified_pipeline may raise: an Error, with or without analysis
\* messages collected, a FrameworkError, a missing file, anything else.
PipelineFailures ==
    {[e |-> Exc("Error", <<"unified_pipeline">>), messages |-> None],
     [e |-> Exc("Error", <<"unified_pipeline">>), messages |-> Some(<<"analysis">>)],
     [e |-> Exc("FrameworkError", <<"cannot load the model">>), messages |-> None],
     [e |-> Exc("FileNotFoundError", MsgENOENT), messages |-> None],
     [e |-> Exc("Exception", <<"KeyError">>), messages |-> None]}

\* prepare_ir lines 238-239
Pipeline ==
    /\ pc = "pipeline"
    /\ calls' = Append(calls, Call("unified_pipeline", Str(argv.framework)))
    /\ \/ /\ Continue("emit_ir")
          /\ UNCHANGED analysis
       \/ \E f \in PipelineFailures :
            /\ analysis' = f.messages
            /\ RaiseWith(f.e, f.messages)
    /\ UNCHANGED <<framework, parsed, argv, is, stdout, fs>>

Pass(name, scope) ==
    [fn |-> "pass", arg |-> name, scope |-> scope]

\* Variant: lines 244 and 245 in the other order.
PassesConstNodesFirst(a) ==
    <<Pass("NormalizeTI", "graph"),
      Pass("CreateConstNodesReplacement", "graph_and_sub_graphs"),
      Pass("RemoveConstOps", "graph_and_sub_graphs")>>
    \o (IF ~a.generate_experimental_IR_V10
        THEN <<Pass("RemoveOutputOps", "sub_graphs")>> ELSE <<>>)
    \o (IF ~a.generate_experimental_IR_V10
        THEN <<Pass("RemoveOutputOps", "graph_and_sub_graphs")>> ELSE <<>>)

\* emit_ir lines 243-249
Passes(a) ==
    <<Pass("NormalizeTI", "graph"),
      Pass("RemoveConstOps", "graph_and_sub_graphs"),
      Pass("CreateConstNodesReplacement", "graph_and_sub_graphs")>>
    \o (IF ~a.generate_experimental_IR_V10
        THEN <<Pass("RemoveOutputOps", "sub_graphs")>> ELSE <<>>)
    \o (IF ~a.generate_experimental_IR_V10
        THEN <<Pass("RemoveOutputOps", "graph_and_sub_graphs")>> ELSE <<>>)

\* emit_ir lines 243-257: the passes, then prepare_emit_ir.  A pass or the
\* emitter may raise; what follows it is then not called.
EmitIr ==
    /\ pc = "emit_ir"
    /\ LET todo == Passes(argv) \o <<Call("prepare_emit_ir",
                                          <<Str(argv.output_dir), Str(argv.model_name)>>)>>
       IN  \/ /\ calls' = calls \o todo
              /\ Continue("banner")
           \/ \E n \in 1..Len(todo) :
                /\ calls' = calls \o SubSeq(todo, 1, n)
                /\ Raise(Exc("Exception", <<"raised by", todo[n].fn>>))
    /\ UNCHANGED <<framework, parsed, argv, is, stdout, analysis, fs>>

\* Variant: "or" written for the "and" of line 259.
PrintsBannerUnlessEither(a) ==
    ~(a.framework = Some(<<"tf">>) \/ Truthy(a.tensorflow_custom_operations_config_update))

\* emit_ir line 259
PrintsBanner(a) ==
    ~(a.framework = Some(<<"tf">>) /\ Truthy(a.tensorflow_custom_operations_config_update))

\* emit_ir lines 260-263
Banner(a) ==
    LET output_dir == IF a.output_dir # Some(<<".">>) THEN Val(a.output_dir) ELSE Cwd
    IN  <<<<"[ SUCCESS ] Generated IR version model.">>,
          <<"[ SUCCESS ] XML file:">> \o output_dir \o <<"/">> \o Str(a.model_name) \o <<".xml">>,
          <<"[ SUCCESS ] BIN file:">> \o output_dir \o <<"/">> \o Str(a.model_name) \o <<".bin">>>>

\* emit_ir line 265
EmitIrResult ==
    0

\* Variant: the test of line 275 inverted.
DriverTailOnNonZero(ret_res) ==
    IF ret_res = 0
    THEN <<>>
    ELSE <<<<"[ SUCCESS ] Total execution time:">>, <<"[ SUCCESS ] Memory consumed:">>>>

\* driver lines 275-290 (resource is importable: the run is on POSIX)
DriverTail(ret_res) ==
    IF ret_res # 0
    THEN <<>>
    ELSE <<<<"[ SUCCESS ] Total execution time:">>, <<"[ SUCCESS ] Memory consumed:">>>>

\* emit_ir lines 259-265, driver lines 273-290, main lines 312-315:
\* get_ov_update_message() had a message or had none.
Finish ==
    /\ pc = "banner"
    /\ \E ov_update_message \in {None, Some(<<"ov_update_message">>)} :
         stdout' = stdout
                   \o (IF PrintsBanner(argv) THEN Banner(argv) ELSE <<>>)
                   \o DriverTail(EmitIrResult)
                   \o (IF Truthy(ov_update_message) /\ ~argv.silent
                       THEN <<Val(ov_update_message)>> ELSE <<>>)
    /\ ret' = Returned(EmitIrResult)
    /\ pc' = "done"
    /\ UNCHANGED <<framework, parsed, argv, is, exc, logs, calls, analysis, fs>>

\* The process exits; what is on disk stays, the error of its os.makedirs
\* does not.
Exit ==
    /\ pc = "done"
    /\ pc' = "idle"
    /\ framework' = None
    /\ parsed' = Namespace(Baseline, None)
    /\ argv' = Namespace(Baseline, None)
    /\ is' = NoFlags
    /\ exc' = NoExc
    /\ ret' = Running
    /\ logs' = <<>>
    /\ stdout' = <<>>
    /\ calls' = <<>>
    /\ analysis' = None
    /\ fs' = [fs EXCEPT !.errno = "none"]

Next ==
    \/ Main
    \/ Exit
    \/ Detect
    \/ RequiredInput
    \/ Naming
    \/ Companion
    \/ Requirements
    \/ Mean
    \/ ScaleExclusive
    \/ ScaleWarning
    \/ SavedModel
    \/ Tags
    \/ Output
    \/ Shapes
    \/ MeanScale
    \/ ResolveOutputDir
    \/ Freeze
    \/ LoadExtensions
    \/ Pipeline
    \/ EmitIr
    \/ Finish

Spec ==
    Init /\ [][Next]_vars

(***************************************************************************)
(* Vocabulary of the properties.                                           *)
(***************************************************************************)
Range(s) ==
    {s[i] : i \in 1..Len(s)}

\* The steps of a run in program order.
Order ==
    <<"prepare_ir", "required", "naming", "companion", "print_argv", "mean",
      "scale", "scale_warning", "saved_model", "tags", "output", "shapes",
      "mean_scale", "output_dir", "freeze", "load", "pipeline", "emit_ir",
      "banner">>

Pos(step) ==
    CHOOSE i \in 1..Len(Order) : Order[i] = step

Failed ==
    pc = "done" /\ exc.kind # "none"

Succeeded ==
    pc = "done" /\ exc.kind = "none"

\* The step has run to its end without raising.
Passed(step) ==
    \/ Succeeded
    \/ Failed /\ Pos(exc.at) > Pos(step)
    \/ pc \notin {"idle", "done"} /\ Pos(pc) > Pos(step)

\* The step raised.
FailedAt(step) ==
    Failed /\ exc.at = step

\* The step has run: to its end, or until it raised.
Executed(step) ==
    Passed(step) \/ FailedAt(step)

CallsOf(fn) ==
    {i \in 1..Len(calls) : calls[i].fn = fn}

\* The categories main() reports a failure under.
Categories ==
    {"file_not_found", "error", "framework_error", "internal"}

LoggedCategories ==
    {logs[i].cat : i \in 1..Len(logs)} \cap Categories

CategoryOf(kind) ==
    IF kind \in {"FileNotFoundError", "NotADirectoryError"} THEN "file_not_found"
    ELSE IF kind = "Error" THEN "error"
    ELSE IF kind = "FrameworkError" THEN "framework_error"
    ELSE "internal"

(***************************************************************************)
(* C1.  Whatever is raised between argument parsing and the end of         *)
(* emission, main() ends by returning 1 and no exception escapes it;       *)
(* main() returns 0 only when driver() completed without raising.          *)
(* Violated: os.makedirs raises NotADirectoryError, whose text lacks       *)
(* 'No such file or directory:', and line 317 raises IndexError.           *)
(***************************************************************************)
C1_EveryFailureReturnsOne ==
    pc = "done" =>
        /\ ret.status = "returned"
        /\ (exc.kind # "none" => ret.code = 1)
        /\ (ret.code = 0 => exc.kind = "none")

(***************************************************************************)
(* C2.  Every failure is logged under exactly one of the four categories,  *)
(* chosen by the priority file-not-found > Error > FrameworkError >        *)
(* internal error.  Violated by the failure of C1: nothing is logged.      *)
(***************************************************************************)
C2_ExactlyOneCategory ==
    Failed => LoggedCategories = {CategoryOf(exc.kind)}

(***************************************************************************)
(* C3.  As claimed: when no framework or more than one framework is        *)
(* selected, prepare_ir fails with the Error that lists the frameworks,    *)
(* before anything else happens.  Violated: main() called with a framework *)
(* while --framework names another one runs on with main()'s framework.    *)
(***************************************************************************)
Selected ==
    {x \in Frameworks : framework = Some(x) \/ parsed.framework = Some(x)}

FailedAsNoFramework ==
    /\ FailedAt("prepare_ir")
    /\ exc.kind = "Error"
    /\ {"caffe", "tf", "mxnet", "kaldi", "onnx"} \subseteq Range(exc.msg)
    /\ ret = Returned(1)
    /\ argv = [parsed EXCEPT !.framework = argv.framework]
    /\ calls = <<>>
    /\ stdout = <<>>

Sources ==
    [tf    |-> {"input_model", "saved_model_dir", "input_meta_graph"},
     mxnet |-> {"input_model", "input_symbol", "pretrained_model_name"},
     caffe |-> {"input_model", "input_proto"},
     kaldi |-> {"input_model"},
     onnx  |-> {"input_model"}]

Flag(o) ==
    CASE o = "input_model" -> "--input_model"
      [] o = "saved_model_dir" -> "--saved_model_dir"
      [] o = "input_meta_graph" -> "--input_meta_graph"
      [] o = "input_symbol" -> "--input_symbol"
      [] o = "pretrained_model_name" -> "--pretrained_model_name"
      [] o = "input_proto" -> "--input_proto"

Detected ==
    {x \in DOMAIN Sources : is[x]}

NoSource(x) ==
    \A o \in Sources[x] : parsed[o] = None

\* C4: the required-input check fails exactly when the detected framework
\* has none of its sources, and names all of them.
C4_RequiredInput ==
    Executed("required") =>
        \A x \in Detected :
            /\ NoSource(x) =>
                  /\ FailedAt("required")
                  /\ exc.kind = "Error"
                  /\ {Flag(o) : o \in Sources[x]} \subseteq Range(exc.msg)
                  /\ ret = Returned(1)
            /\ ~NoSource(x) => ~FailedAt("required")

C4_Witness ==
    /\ is.mxnet
    /\ NoSource("mxnet")
    /\ FailedAt("required")
    /\ ret = Returned(1)

(***************************************************************************)
(* C5.  As claimed: without --model_name the name is the basename minus    *)
(* extension of an input path that was supplied, and "<UNKNOWN_NAME>" is   *)
(* used only when no input path was supplied.  Violated: TensorFlow with   *)
(* only --saved_model_dir is named "saved_model", Caffe with only          *)
(* --input_proto is named "<UNKNOWN_NAME>".                                *)
(***************************************************************************)
\* Basename minus extension of the paths of the model.
Stem(path) ==
    CASE path = <<"model", ".", "caffemodel">> -> <<"model">>
      [] path = <<"nets", ".", "v1", "/", "net", ".", "caffemodel">> -> <<"net">>
      [] path = <<"model", ".", "pb">> -> <<"model">>
      [] path = <<"w", ".", "caffemodel", "/", ".", "caffemodel">> -> <<".", "caffemodel">>
      [] path = <<"export", "/", "sm", ".", "v2">> -> <<"sm">>
      [] path = <<"ckpt", "/", "graph", ".", "meta">> -> <<"graph">>
      [] path = <<"net", "-symbol", ".", "json">> -> <<"net", "-symbol">>
      [] path = <<"deploy", ".", "prototxt">> -> <<"deploy">>

PathOptions ==
    {"input_model", "saved_model_dir", "input_meta_graph", "input_symbol", "input_proto"}

SuppliedPaths ==
    {Val(parsed[o]) : o \in {q \in PathOptions : parsed[q] # None}}

\* C5 as claimed: the name is the stem of a supplied path, and the
\* placeholder is used only when no path was supplied.
C5_NameFromSuppliedPath ==
    (Passed("naming") /\ parsed.model_name = None) =>
        /\ SuppliedPaths # {} => \E path \in SuppliedPaths : argv.model_name = Some(Stem(path))
        /\ argv.model_name = Some(<<"<UNKNOWN_NAME>">>) => SuppliedPaths = {}

(***************************************************************************)
(* C5, amended.  The resolved name is --model_name when given; else the    *)
(* basename minus extension of --input_model when given; else, for         *)
(* TensorFlow, "saved_model" when --saved_model_dir is given and otherwise *)
(* the basename minus extension of --input_meta_graph; for MXNet, that of  *)
(* --input_symbol when given; and "<UNKNOWN_NAME>" in every other case     *)
(* (MXNet with only --pretrained_model_name, Caffe with only               *)
(* --input_proto).  It is a function of these options and the framework.   *)
(***************************************************************************)
NameWithoutModel ==
    IF is.tf
    THEN IF parsed.saved_model_dir # None
         THEN <<"saved_model">>
         ELSE Stem(Val(parsed.input_meta_graph))
    ELSE IF is.mxnet /\ parsed.input_symbol # None
    THEN Stem(Val(parsed.input_symbol))
    ELSE <<"<UNKNOWN_NAME>">>

\* C5 amended: the resolved name is --model_name, else the stem of
\* --input_model, else what the framework's branch gives.
C5_ResolvedName ==
    Passed("naming") =>
        argv.model_name = Some(IF parsed.model_name # None
                               THEN Val(parsed.model_name)
                               ELSE IF parsed.input_model # None
                               THEN Stem(Val(parsed.input_model))
                               ELSE NameWithoutModel)

C5_Witness ==
    /\ Passed("naming")
    /\ is.tf
    /\ parsed.model_name = None
    /\ parsed.input_model = None
    /\ parsed.saved_model_dir # None
    /\ argv.model_name = Some(<<"saved_model">>)

(***************************************************************************)
(* C6.  Caffe without --input_proto: an --input_model with the extension   *)
(* .caffemodel gives input_proto the same path with .prototxt in its       *)
(* place; any other --input_model makes prepare_ir fail with an Error and  *)
(* leaves input_proto unusable.  A given --input_proto is never            *)
(* overwritten.                                                            *)
(***************************************************************************)
\* The paths of the model whose extension is .caffemodel, with .prototxt.
WithPrototxt ==
    [p \in {<<"model", ".", "caffemodel">>,
            <<"nets", ".", "v1", "/", "net", ".", "caffemodel">>} |->
        IF p = <<"model", ".", "caffemodel">>
        THEN <<"model", ".", "prototxt">>
        ELSE <<"nets", ".", "v1", "/", "net", ".", "prototxt">>]

\* C6: a given --input_proto is kept; without one, Caffe derives it from a
\* .caffemodel path and fails with an Error on any other.
C6_CompanionFile ==
    /\ (pc # "idle" /\ parsed.input_proto # None) => argv.input_proto = parsed.input_proto
    /\ (Executed("companion") /\ is.caffe /\ parsed.input_proto = None) =>
          IF Val(parsed.input_model) \in DOMAIN WithPrototxt
          THEN /\ Passed("companion")
               /\ argv.input_proto = Some(WithPrototxt[Val(parsed.input_model)])
          ELSE /\ FailedAt("companion")
               /\ exc.kind = "Error"
               /\ argv.input_proto = None

C6_Witness ==
    /\ is.caffe
    /\ parsed.input_proto = None
    /\ parsed.input_model = Some(<<"nets", ".", "v1", "/", "net", ".", "caffemodel">>)
    /\ Passed("companion")
    /\ argv.input_proto = Some(<<"nets", ".", "v1", "/", "net", ".", "prototxt">>)

(***************************************************************************)
(* C7.  As claimed: whenever --mean_file_offsets is set, whatever the      *)
(* other options are, a negative offset makes validation fail with an      *)
(* Error and non-negative offsets are replaced by the array of the parsed  *)
(* ints.  Violated: for TensorFlow, or without --mean_file, the offsets    *)
(* are not looked at.                                                      *)
(***************************************************************************)
\* The integers the offsets of the model denote.
OffsetInts(raw) ==
    CASE raw.str = <<"(", "0", ",", "1", "7", ")">> -> <<0, 17>>
      [] raw.str = <<"(", "3", ",", "-", "4", ")">> -> <<3, -4>>

HasNegative(ints) ==
    \E i \in 1..Len(ints) : ints[i] < 0

OffsetsRejected ==
    /\ FailedAt("mean")
    /\ exc.kind = "Error"
    /\ "--mean_file_offsets" \in Range(exc.msg)
    /\ argv.mean_file_offsets = parsed.mean_file_offsets

OffsetsNormalized ==
    /\ Passed("mean")
    /\ "array" \in DOMAIN Val(argv.mean_file_offsets)
    /\ Val(argv.mean_file_offsets).array = OffsetInts(Val(parsed.mean_file_offsets))

\* C7 as claimed: offsets are validated and normalized whenever they are set.
C7_OffsetsAlwaysValidated ==
    (Executed("mean") /\ parsed.mean_file_offsets # None) =>
        IF HasNegative(OffsetInts(Val(parsed.mean_file_offsets)))
        THEN FailedAt("mean") /\ exc.kind = "Error"
        ELSE OffsetsNormalized

(***************************************************************************)
(* C7, amended.  For Caffe with --mean_file set and --mean_values not set: *)
(* a negative offset makes validation fail with an Error naming            *)
(* --mean_file_offsets, and non-negative offsets are replaced by the array *)
(* of the parsed ints.  In every other configuration the offsets are not   *)
(* validated and stay as given.                                            *)
(***************************************************************************)
\* C7 amended: offsets are validated and normalized for Caffe with
\* --mean_file and without --mean_values, and left as given otherwise.
C7_OffsetsValidatedForCaffeMeanFile ==
    (Executed("mean") /\ parsed.mean_file_offsets # None) =>
        IF is.caffe /\ parsed.mean_file # None /\ parsed.mean_values = None
        THEN IF HasNegative(OffsetInts(Val(parsed.mean_file_offsets)))
             THEN OffsetsRejected
             ELSE OffsetsNormalized
        ELSE /\ argv.mean_file_offsets = parsed.mean_file_offsets
             /\ FailedAt("mean") => (is.caffe /\ parsed.mean_values # None)

C7_Witness ==
    /\ is.caffe
    /\ parsed.mean_file # None
    /\ parsed.mean_file_offsets # None
    /\ OffsetsNormalized

(***************************************************************************)
(* C8.  Caffe with both --mean_file and --mean_values given fails in the   *)
(* mean check with an Error citing both names, before the offsets are      *)
(* parsed and before the output directory is created.  --scale given       *)
(* together with --scale_values fails for every framework, and             *)
(* --input_model given together with --saved_model_dir fails for tf.       *)
(***************************************************************************)
C8_BothMeanFails ==
    (Executed("mean") /\ is.caffe /\ parsed.mean_file # None /\ parsed.mean_values # None) =>
        /\ FailedAt("mean")
        /\ exc.kind = "Error"
        /\ {"--mean_file", "mean_values"} \subseteq Range(exc.msg)
        /\ ret = Returned(1)
        /\ argv.mean_file_offsets = parsed.mean_file_offsets
        /\ CallsOf("os.makedirs") = {}

C8_BothScaleFails ==
    (Executed("scale") /\ parsed.scale # None /\ parsed.scale_values # None) =>
        /\ FailedAt("scale")
        /\ exc.kind = "Error"
        /\ {"--scale", "--scale_values"} \subseteq Range(exc.msg)
        /\ ret = Returned(1)

C8_ModelAndDirFails ==
    (Executed("saved_model") /\ is.tf /\ parsed.input_model # None
            /\ parsed.saved_model_dir # None) =>
        /\ FailedAt("saved_model")
        /\ exc.kind = "Error"
        /\ {"--input_model", "--saved_model_dir"} \subseteq Range(exc.msg)
        /\ ret = Returned(1)

\* C8: each of the three exclusive pairs, given together, fails with an Error.
C8_ExclusivePairsFail ==
    C8_BothMeanFails /\ C8_BothScaleFails /\ C8_ModelAndDirFails

(***************************************************************************)
(* C9.  A --scale below 1.0 with no --scale_values is accepted: the check  *)
(* logs the warning, raises nothing, leaves argv.scale as given and the    *)
(* run goes on to the next check; every value below 1.0 is warned about.   *)
(***************************************************************************)
ScaleWarnings ==
    {i \in 1..Len(logs) : logs[i].cat = "warning" /\ logs[i].text = MsgScaleWarning}

\* C9: every --scale below 1.0 without --scale_values passes the check with
\* exactly one warning and is left as given.
C9_ScaleBelowOneWarns ==
    (Executed("scale_warning") /\ parsed.scale # None /\ Val(parsed.scale) < 10
            /\ parsed.scale_values = None) =>
        /\ Passed("scale_warning")
        /\ Cardinality(ScaleWarnings) = 1
        /\ argv.scale = parsed.scale

(***************************************************************************)
(* C10.  The output directory step: a directory that does not exist gets   *)
(* exactly one os.makedirs, and a refusal for permissions ends the run     *)
(* with an Error; one that exists and is not writable ends the run with an *)
(* Error and no os.makedirs; one that exists and is writable is left as it *)
(* is, nothing is called and nothing fails.  So the step run again on the  *)
(* directory it created calls os.makedirs no second time.                  *)
(***************************************************************************)
MakedirsAttempts(cs) ==
    Cardinality({i \in 1..Len(cs) : cs[i].fn = "os.makedirs"})

\* C10: the three cases of the output directory step.
C10_OutputDirResolution ==
    [][pc = "output_dir" =>
        /\ (~fs.exists) =>
              /\ MakedirsAttempts(calls') = MakedirsAttempts(calls) + 1
              /\ fs'.errno = "EACCES" =>
                    (pc' = "done" /\ exc'.kind = "Error" /\ ret' = Returned(1)
                        /\ ~fs'.exists)
              /\ fs'.errno = "none" =>
                    (pc' = "freeze" /\ exc'.kind = "none" /\ fs'.exists /\ fs'.writable)
        /\ (fs.exists /\ ~fs.writable) =>
              /\ pc' = "done" /\ exc'.kind = "Error" /\ ret' = Returned(1)
              /\ calls' = calls /\ fs' = fs
        /\ (fs.exists /\ fs.writable) =>
              /\ pc' = "freeze" /\ exc'.kind = "none"
              /\ calls' = calls /\ fs' = fs]_vars

\* The step has passed on a directory that exists and is writable.
C10_Witness ==
    /\ Passed("output_dir")
    /\ pc = "freeze"
    /\ fs.exists /\ fs.writable
    /\ CallsOf("os.makedirs") = {}

(***************************************************************************)
(* C11.  A run whose validation, extension loading, conversion and emitter *)
(* all complete ends with status 0 and with the banner lines naming the    *)
(* .xml and the .bin file of the resolved name under the output directory  *)
(* (the working directory when --output_dir is "."); the banner is left    *)
(* out exactly when the framework is tf and                                *)
(* --tensorflow_custom_operations_config_update is given, and never        *)
(* printed before the emitter has returned.                                *)
(***************************************************************************)
BannerLines ==
    {i \in 1..Len(stdout) : stdout[i][1] \in {"[ SUCCESS ] XML file:", "[ SUCCESS ] BIN file:"}}

ResolvedDir ==
    IF parsed.output_dir = Some(<<".">>) THEN <<"/", "cwd">> ELSE Val(parsed.output_dir)

ArtifactLine(label, ext) ==
    <<label>> \o ResolvedDir \o <<"/">> \o Val(argv.model_name) \o <<ext>>

UpdateMode ==
    is.tf /\ parsed.tensorflow_custom_operations_config_update # None

\* C11: status 0 and the banner after a run that raised nothing; no banner
\* line before prepare_emit_ir has returned.
C11_CleanRunBanner ==
    /\ (pc = "done" /\ Passed("emit_ir")) =>
          /\ ret = Returned(0)
          /\ IF UpdateMode
             THEN BannerLines = {}
             ELSE /\ Cardinality(BannerLines) = 2
                  /\ ArtifactLine("[ SUCCESS ] XML file:", ".xml") \in Range(stdout)
                  /\ ArtifactLine("[ SUCCESS ] BIN file:", ".bin") \in Range(stdout)
    /\ BannerLines # {} =>
          /\ Passed("emit_ir")
          /\ CallsOf("prepare_emit_ir") # {}

C11_Witness ==
    /\ Succeeded
    /\ UpdateMode
    /\ ret = Returned(0)
    /\ BannerLines = {}
    /\ CallsOf("prepare_emit_ir") # {}

(***************************************************************************)
(* C12.  In every run that calls unified_pipeline, load_dirs has been      *)
(* called exactly once, for the detected framework and with the lookup     *)
(* function of that framework only, after every validation step passed and *)
(* before unified_pipeline; a run that fails in validation never calls     *)
(* load_dirs.                                                              *)
(***************************************************************************)
LookupOf ==
    [tf |-> "mo.front.tf", caffe |-> "mo.front.caffe", mxnet |-> "mo.front.mxnet",
     kaldi |-> "mo.front.kaldi", onnx |-> "mo.front.onnx"]

\* The steps of prepare_ir before the extensions are loaded.
ValidationSteps ==
    {Order[i] : i \in 1..Pos("freeze")}

LoadedOnceFor(x) ==
    /\ Cardinality(CallsOf("load_dirs")) = 1
    /\ \A i \in CallsOf("load_dirs") :
          /\ calls[i].lookup = LookupOf[x]
          /\ calls[i].arg = <<x>>
          /\ \A j \in CallsOf("unified_pipeline") : i < j
          /\ \A j \in 1..Len(calls) :
                calls[j].fn \in {"check_requirements", "get_placeholder_shapes",
                                 "get_mean_scale_dictionary", "os.makedirs",
                                 "get_freeze_placeholder_values"} => j < i

\* C12: one load_dirs per run that reaches unified_pipeline, none in a run
\* that fails in validation.
C12_ExtensionsLoadedOnce ==
    /\ CallsOf("unified_pipeline") # {} =>
          /\ Cardinality(Detected) = 1
          /\ \A x \in Detected : LoadedOnceFor(x)
          /\ \A step \in ValidationSteps : Passed(step)
    /\ (\E step \in ValidationSteps : FailedAt(step)) => CallsOf("load_dirs") = {}

C12_Witness ==
    /\ CallsOf("unified_pipeline") # {}
    /\ is.mxnet
    /\ LoadedOnceFor("mxnet")

(***************************************************************************)
(* C13.  A run that returns 1 leaves no effect behind: it has not created  *)
(* the output directory and has not loaded extensions.  Violated: a run    *)
(* that fails after line 203 returns 1 with the directory created, and one *)
(* that fails in unified_pipeline or emit_ir has called load_dirs.         *)
(***************************************************************************)
DirectoryCreated ==
    CallsOf("os.makedirs") # {} /\ fs.exists

C13_AllOrNothing ==
    (pc = "done" /\ ret = Returned(1)) =>
        /\ ~DirectoryCreated
        /\ CallsOf("load_dirs") = {}

(***************************************************************************)
(* C14.  Validation is fail-fast in the order of the steps: a rule the     *)
(* configuration violates is never passed, so the error reported is that   *)
(* of the earliest violated check, and no field that a later step          *)
(* normalizes has been touched, nor any function a later step calls been   *)
(* called, when a step fails.                                              *)
(***************************************************************************)
Rules ==
    {"prepare_ir", "required", "companion", "mean", "scale", "saved_model", "tags",
     "output_dir"}

\* The configuration violates the rule of the step.
Violates(rule) ==
    CASE rule = "prepare_ir" -> Selected = {}
      [] rule = "required" -> \E x \in Detected : NoSource(x)
      [] rule = "companion" ->
            /\ is.caffe /\ parsed.input_proto = None /\ parsed.input_model # None
            /\ Val(parsed.input_model) \notin DOMAIN WithPrototxt
      [] rule = "mean" ->
            /\ is.caffe /\ parsed.mean_file # None
            /\ \/ parsed.mean_values # None
               \/ /\ parsed.mean_file_offsets # None
                  /\ HasNegative(OffsetInts(Val(parsed.mean_file_offsets)))
      [] rule = "scale" -> parsed.scale # None /\ parsed.scale_values # None
      [] rule = "saved_model" ->
            is.tf /\ parsed.input_model # None /\ parsed.saved_model_dir # None
      [] rule = "tags" ->
            /\ is.tf /\ parsed.saved_model_tags # None
            /\ " " \in Range(Val(parsed.saved_model_tags).str)
      [] rule = "output_dir" -> fs.exists /\ ~fs.writable

\* The step that gives the field its normalized value.
NormalizedAt ==
    [generate_experimental_IR_V10 |-> "naming",
     model_name |-> "naming",
     input_proto |-> "companion",
     transformations_config |-> "print_argv",
     mean_file_offsets |-> "mean",
     saved_model_tags |-> "tags",
     output |-> "output",
     placeholder_shapes |-> "shapes",
     placeholder_data_types |-> "shapes",
     mean_scale_values |-> "mean_scale",
     input |-> "freeze",
     freeze_placeholder_with_value |-> "freeze"]

\* The step that calls the function.
CalledAt ==
    [check_requirements |-> "print_argv",
     get_placeholder_shapes |-> "shapes",
     get_mean_scale_dictionary |-> "mean_scale",
     get_freeze_placeholder_values |-> "freeze",
     load_dirs |-> "load",
     unified_pipeline |-> "pipeline"]

NothingLaterThan(step) ==
    /\ \A f \in DOMAIN NormalizedAt :
          Pos(NormalizedAt[f]) > Pos(step) => argv[f] = parsed[f]
    /\ \A fn \in DOMAIN CalledAt :
          Pos(CalledAt[fn]) > Pos(step) => CallsOf(fn) = {}
    /\ Pos("output_dir") > Pos(step) => CallsOf("os.makedirs") = {}

\* C14: no violated rule is passed, and a failed step is the last thing the
\* run did.
C14_FailFastInOrder ==
    /\ \A rule \in Rules : (pc # "idle" /\ Violates(rule)) => ~Passed(rule)
    /\ \A step \in ValidationSteps : FailedAt(step) => NothingLaterThan(step)

(***************************************************************************)
(* C15.  Checks of one framework are skipped for the others.  Not Caffe:   *)
(* the mean step never fails and input_proto and mean_file_offsets stay as *)
(* given.  Not tf: saved_model_tags and transformations_config stay as     *)
(* given, and --saved_model_dir with --input_model does not fail.  Not     *)
(* Kaldi: generate_experimental_IR_V10 stays as given.                     *)
(***************************************************************************)
C15_OtherFrameworksSkipped ==
    (Executed("prepare_ir") /\ Detected # {}) =>
        /\ ~is.caffe =>
              /\ ~FailedAt("mean") /\ ~FailedAt("companion")
              /\ argv.input_proto = parsed.input_proto
              /\ argv.mean_file_offsets = parsed.mean_file_offsets
        /\ ~is.tf =>
              /\ ~FailedAt("saved_model") /\ ~FailedAt("tags")
              /\ argv.saved_model_tags = parsed.saved_model_tags
              /\ argv.transformations_config = parsed.transformations_config
        /\ ~is.kaldi =>
              argv.generate_experimental_IR_V10 = parsed.generate_experimental_IR_V10

C15_Witness ==
    /\ is.mxnet
    /\ Passed("tags")
    /\ parsed.mean_file # None
    /\ parsed.mean_file_offsets # None
    /\ argv.mean_file_offsets = parsed.mean_file_offsets

(***************************************************************************)
(* C16.  emit_ir calls, in this order: NormalizeTI on the graph;           *)
(* RemoveConstOps and then CreateConstNodesReplacement on the graph and    *)
(* every sub-graph; when generate_experimental_IR_V10 is false,            *)
(* RemoveOutputOps on the sub-graphs and then on the graph and every       *)
(* sub-graph, and neither when it is true; then prepare_emit_ir, never     *)
(* before the passes that apply.                                           *)
(***************************************************************************)
IsEmitCall(c) ==
    c.fn \in {"pass", "prepare_emit_ir"}

\* What emit_ir has called so far, as <<name, scope>>.
EmitTrace ==
    LET e == SelectSeq(calls, IsEmitCall)
    IN  [i \in 1..Len(e) |->
            IF e[i].fn = "pass" THEN <<e[i].arg, e[i].scope>> ELSE <<"prepare_emit_ir">>]

ExpectedEmitTrace ==
    <<<<"NormalizeTI", "graph">>,
      <<"RemoveConstOps", "graph_and_sub_graphs">>,
      <<"CreateConstNodesReplacement", "graph_and_sub_graphs">>>>
    \o (IF argv.generate_experimental_IR_V10
        THEN <<>>
        ELSE <<<<"RemoveOutputOps", "sub_graphs">>,
               <<"RemoveOutputOps", "graph_and_sub_graphs">>>>)
    \o <<<<"prepare_emit_ir">>>>

\* C16: what emit_ir has called is the start of the expected order, and all
\* of it once emit_ir has returned.
C16_EmitOrder ==
    /\ Len(EmitTrace) <= Len(ExpectedEmitTrace)
    /\ EmitTrace = SubSeq(ExpectedEmitTrace, 1, Len(EmitTrace))
    /\ (pc # "idle" /\ Passed("emit_ir")) => EmitTrace = ExpectedEmitTrace
    /\ EmitTrace # <<>> => Passed("pipeline")

C16_Witness ==
    /\ Passed("emit_ir")
    /\ argv.generate_experimental_IR_V10
    /\ Len(EmitTrace) = 4
    /\ EmitTrace[4] = <<"prepare_emit_ir">>

(***************************************************************************)
(* C17.  A normalized field keeps its normalized value to the end of the   *)
(* run: output and saved_model_tags stay the lists of their first split,   *)
(* mean_file_offsets the array, input the names left by the freeze step.   *)
(* Every reader of the raw argv.input (get_placeholder_shapes,             *)
(* get_mean_scale_dictionary) is called with the raw value and before      *)
(* get_freeze_placeholder_values replaces it.                              *)
(***************************************************************************)
RawInputReaders ==
    CallsOf("get_placeholder_shapes") \cup CallsOf("get_mean_scale_dictionary")

\* C17: raw readers come first and see the raw input; a normalized field is
\* the one normalization of its parsed value in every later state.
C17_NormalizedOnce ==
    /\ \A i \in RawInputReaders \cup CallsOf("get_freeze_placeholder_values") :
          calls[i].arg = parsed.input
    /\ \A i \in RawInputReaders, j \in CallsOf("get_freeze_placeholder_values") : i < j
    /\ Cardinality(CallsOf("get_freeze_placeholder_values")) <= 1
    /\ (pc # "idle" /\ Passed("freeze")) =>
          /\ argv.input = Some([names |-> <<"data">>])
          /\ Cardinality(RawInputReaders) = 2
    /\ (pc # "idle" /\ Passed("output") /\ parsed.output # None) =>
          argv.output = Some([list |-> <<<<"prob">>, <<"fc8">>>>])
    /\ (pc # "idle" /\ Passed("tags") /\ is.tf /\ parsed.saved_model_tags # None) =>
          argv.saved_model_tags = Some([list |-> <<<<"serve">>, <<"gpu">>>>])
    /\ (pc # "idle" /\ Passed("mean") /\ is.caffe /\ parsed.mean_file # None
            /\ parsed.mean_file_offsets # None) =>
          argv.mean_file_offsets = Some([array |-> <<0, 17>>])

C17_Witness ==
    /\ Succeeded
    /\ parsed.output # None
    /\ argv.output = Some([list |-> <<<<"prob">>, <<"fc8">>>>])
    /\ argv.input = Some([names |-> <<"data">>])
    /\ Cardinality(RawInputReaders) = 2

(***************************************************************************)
(* C18.  As claimed: a failure that is a missing file, an Error or a       *)
(* FrameworkError shows the user no stack trace, whatever --log_level is.  *)
(* Violated: lines 318, 325 and 328 log the trace with log.debug, which    *)
(* --log_level DEBUG shows.                                                *)
(***************************************************************************)
TraceShown(log_level) ==
    \E i \in 1..Len(Shown(logs, log_level)) : Shown(logs, log_level)[i].text = Traceback

Classified ==
    Failed /\ exc.kind \in {"FileNotFoundError", "NotADirectoryError", "Error", "FrameworkError"}

\* C18 as claimed: no trace for a classified failure at any level.
C18_NoTraceAtAnyLevel ==
    Classified => \A log_level \in LogLevels : ~TraceShown(log_level)

(***************************************************************************)
(* C18, amended.  For a missing file, an Error or a FrameworkError main()  *)
(* logs the trace at debug level only: no trace is shown at the levels     *)
(* CRITICAL, ERROR, WARN, WARNING and INFO, and the trace is shown at      *)
(* DEBUG and NOTSET whenever main() returns from the failure.  For an      *)
(* internal error the trace is logged at error level: it is shown at every *)
(* level but CRITICAL.                                                     *)
(***************************************************************************)
C18_TraceOnlyAtDebug ==
    /\ Classified =>
          /\ \A log_level \in LogLevels \ {"DEBUG", "NOTSET"} : ~TraceShown(log_level)
          /\ ret = Returned(1) => (TraceShown("DEBUG") /\ TraceShown("NOTSET"))
    /\ (Failed /\ ~Classified) =>
          /\ \A log_level \in LogLevels \ {"CRITICAL"} : TraceShown(log_level)
          /\ ~TraceShown("CRITICAL")

C18_Witness ==
    /\ Failed
    /\ exc.kind = "FrameworkError"
    /\ ret = Returned(1)
    /\ TraceShown("DEBUG")
    /\ ~TraceShown("INFO")

(***************************************************************************)
(* C19.  The Caffe branch of the companion step calls replace_ext only     *)
(* with an input_model that is set: a Caffe configuration with neither     *)
(* --input_model nor --input_proto has failed in the required-input check. *)
(* The step ends with a derived path or with an Error, never with an       *)
(* exception main() reports as internal.                                   *)
(***************************************************************************)
InfersProto ==
    Executed("companion") /\ is.caffe /\ parsed.input_proto = None

C19_InferenceHasModel ==
    /\ InfersProto => parsed.input_model # None
    /\ FailedAt("companion") => (exc.kind = "Error" /\ InfersProto /\ ret = Returned(1))
    /\ (Passed("required") /\ is.caffe) =>
          (parsed.input_model # None \/ parsed.input_proto # None)
    /\ (InfersProto /\ Passed("companion")) => argv.input_proto # None

C19_Witness ==
    /\ InfersProto
    /\ parsed.input_model = Some(<<"model", ".", "pb">>)
    /\ FailedAt("companion")
    /\ exc.kind = "Error"

(***************************************************************************)
(* C20.  Failure is signalled by raising only.  When emit_ir returns, it   *)
(* returns 0: driver prints the elapsed-time line and returns 0, and so    *)
(* does main().  main() returns 1 only from an except clause, after an     *)
(* exception was raised and logged; it returns no other status.            *)
(***************************************************************************)
ElapsedTimeLine ==
    <<"[ SUCCESS ] Total execution time:">>

ElapsedPrinted ==
    {i \in 1..Len(stdout) : stdout[i] = ElapsedTimeLine}

C20_FailureOnlyByRaising ==
    /\ Succeeded =>
          /\ ret = Returned(0)
          /\ Cardinality(ElapsedPrinted) = 1
    /\ ElapsedPrinted # {} => Succeeded
    /\ ret = Returned(1) =>
          /\ Failed
          /\ logs # <<>>
          /\ \E step \in Range(Order) : FailedAt(step)
    /\ ret.status = "returned" => ret.code \in {0, 1}
    /\ Failed => ret.code # 0

C20_Witness ==
    /\ Succeeded
    /\ ret = Returned(0)
    /\ ElapsedPrinted # {}
    /\ logs = <<>>

====
